---- MODULE Spec2Model ----
(***************************************************************************)
(* Model of the PDOK style engine of MapComponent                          *)
(* (src/src/app/map/map.component.ts): the asynchronous initialisation     *)
(* (initializeMap, loadPdokStyle, addPdokBrtLayer), the style compiler     *)
(* (preprocessStyles and the create*Style methods with parseColor and      *)
(* parseFont) and the per-feature style function                           *)
(* (createPdokStyleFunction, createDefaultStyleForGeometry), and the       *)
(* teardown (ngOnDestroy); and of LayersComponent                          *)
(* (src/src/app/layers/layers.component.ts) with the BgtlayerService       *)
(* (src/src/app/layers/serices/bgtlayer.service.ts) it takes its BGT layer *)
(* from.                                                                   *)
(*                                                                         *)
(* Specifications: Spec (MapComponent from ngOnInit on), SpecLifecycle     *)
(* (the same with ngOnDestroy), SpecCompile (preprocessStyles called       *)
(* repeatedly), SpecCalls (parseColor and convertMapboxLayerToOpenLayers   *)
(* called directly) and SpecLayers (LayersComponent).                      *)
(*                                                                         *)
(* JavaScript values are tagged records, one field per kind, so that       *)
(* values of different kinds compare unequal:                              *)
(*   [undef |-> TRUE]   undefined          [null |-> TRUE]   null          *)
(*   [num |-> k]        the number k/10    [nan |-> TRUE]    NaN           *)
(*   [str |-> s]        a string, s its sequence of characters             *)
(*   [list |-> l]       an array           [obj |-> m]       an object     *)
(* Layer ids, layer types, source-layer names and geometry types are only  *)
(* compared and tested for emptiness by the code; they are TLA+ strings.   *)
(***************************************************************************)
EXTENDS Integers, Sequences, FiniteSets, TLC

(***************************************************************************)
(* JavaScript values                                                       *)
(***************************************************************************)
Undefined == [undef |-> TRUE]
Null == [null |-> TRUE]
NaN == [nan |-> TRUE]
Num(k) == [num |-> k]
Str(s) == [str |-> s]
List(l) == [list |-> l]
Obj(m) == [obj |-> m]
EmptyObj == Obj(<<>>)

IsUndefined(v) == "undef" \in DOMAIN v
IsNull(v) == "null" \in DOMAIN v
IsNum(v) == "num" \in DOMAIN v
IsNaN(v) == "nan" \in DOMAIN v
IsStr(v) == "str" \in DOMAIN v
IsList(v) == "list" \in DOMAIN v
IsThrow(v) == "throw" \in DOMAIN v

\* The exception value a throwing expression evaluates to.
TypeError == [throw |-> "TypeError"]

\* JavaScript truthiness: undefined, null, NaN, 0 and "" are falsy.
Truthy(v) ==
  CASE IsUndefined(v) -> FALSE
    [] IsNull(v) -> FALSE
    [] IsNaN(v) -> FALSE
    [] IsNum(v) -> v.num # 0
    [] IsStr(v) -> v.str # <<>>
    [] OTHER -> TRUE

\* a || b
Or(a, b) == IF Truthy(a) THEN a ELSE b

\* o[k] for an object o
Get(o, k) == IF k \in DOMAIN o.obj THEN o.obj[k] ELSE Undefined

\* v[i] (0-based) for a truthy v
Index(v, i) ==
  CASE IsList(v) -> IF i + 1 <= Len(v.list) THEN v.list[i + 1] ELSE Undefined
    [] IsStr(v) -> IF i + 1 <= Len(v.str) THEN Str(<<v.str[i + 1]>>) ELSE Undefined
    [] OTHER -> Undefined

\* v * 8 (a non-number operand gives NaN)
Times8(v) == IF IsNum(v) THEN Num(v.num * 8) ELSE NaN

(***************************************************************************)
(* Strings: conversion of values to text, as template literals do          *)
(***************************************************************************)
Digits == <<"0", "1", "2", "3", "4", "5", "6", "7", "8", "9">>

RECURSIVE Dec(_)
Dec(n) == IF n < 10 THEN <<Digits[n + 1]>> ELSE Dec(n \div 10) \o <<Digits[(n % 10) + 1]>>

\* text of the number k/10
FmtTenths(k) ==
  LET a == IF k < 0 THEN 0 - k ELSE k
      body == IF a % 10 = 0 THEN Dec(a \div 10) ELSE Dec(a \div 10) \o <<".">> \o Dec(a % 10)
  IN IF k < 0 THEN <<"-">> \o body ELSE body

RECURSIVE Join(_, _)
RECURSIVE ToText(_)
\* Array.prototype.join
Join(l, sep) ==
  IF l = <<>> THEN <<>>
  ELSE IF Len(l) = 1 THEN ToText(l[1])
  ELSE ToText(l[1]) \o sep \o Join(Tail(l), sep)

\* `${v}`
ToText(v) ==
  CASE IsNum(v) -> FmtTenths(v.num)
    [] IsNaN(v) -> <<"N", "a", "N">>
    [] IsStr(v) -> v.str
    [] IsList(v) -> Join(v.list, <<",">>)
    [] IsNull(v) -> <<"n", "u", "l", "l">>
    [] IsUndefined(v) -> <<"u", "n", "d", "e", "f", "i", "n", "e", "d">>
    [] OTHER -> <<"[", "o", "b", "j", "e", "c", "t", " ", "O", "b", "j", "e", "c", "t", "]">>

StartsWith(s, p) == Len(s) >= Len(p) /\ SubSeq(s, 1, Len(p)) = p

\* s.substr(from, 2), from 0-based
Substr2(s, from) == SubSeq(s, from + 1, IF from + 2 <= Len(s) THEN from + 2 ELSE Len(s))

HexDigits == <<"0", "1", "2", "3", "4", "5", "6", "7", "8", "9", "a", "b", "c", "d", "e", "f">>
UpperHex == <<"0", "1", "2", "3", "4", "5", "6", "7", "8", "9", "A", "B", "C", "D", "E", "F">>
IsHex(c) == \E d \in 1..16 : HexDigits[d] = c \/ UpperHex[d] = c
HexVal(c) == (CHOOSE d \in 1..16 : HexDigits[d] = c \/ UpperHex[d] = c) - 1

\* parseInt(s, 16) for s of at most two characters: the longest prefix of hex
\* digits, NaN when there is none.  The result is a whole number n = [num |-> 10 n].
ParseIntHex(s) ==
  IF s = <<>> \/ ~IsHex(s[1]) THEN NaN
  ELSE IF Len(s) = 1 \/ ~IsHex(s[2]) THEN Num(10 * HexVal(s[1]))
  ELSE Num(10 * (16 * HexVal(s[1]) + HexVal(s[2])))

\* position of the first occurrence of pattern p in s, 0 when there is none
FirstIndexOf(s, p) ==
  LET hits == {k \in 1..Len(s) : k + Len(p) - 1 <= Len(s) /\ SubSeq(s, k, k + Len(p) - 1) = p}
  IN IF hits = {} THEN 0 ELSE CHOOSE k \in hits : \A h \in hits : k <= h

\* s.replace(p, r): the first occurrence only
ReplaceFirst(s, p, r) ==
  LET k == FirstIndexOf(s, p)
  IN IF k = 0 THEN s ELSE SubSeq(s, 1, k - 1) \o r \o SubSeq(s, k + Len(p), Len(s))

LowerOf(c) ==
  LET up == <<"A", "B", "C", "D", "E", "F", "G", "H", "I", "J", "K", "L", "M", "N", "O", "P", "Q", "R", "S", "T", "U", "V", "W", "X", "Y", "Z">>
      lo == <<"a", "b", "c", "d", "e", "f", "g", "h", "i", "j", "k", "l", "m", "n", "o", "p", "q", "r", "s", "t", "u", "v", "w", "x", "y", "z">>
  IN IF \E k \in 1..26 : up[k] = c THEN lo[CHOOSE k \in 1..26 : up[k] = c] ELSE c

ToLowerCase(s) == [k \in 1..Len(s) |-> LowerOf(s[k])]

(***************************************************************************)
(* Value parsers: parseColor and parseFont                                 *)
(***************************************************************************)
BlackHex == <<"#", "0", "0", "0", "0", "0", "0">>
BackgroundHex == <<"#", "f", "0", "f", "0", "f", "0">>
OpaqueBlack == <<"r", "g", "b", "a", "(", "0", ",", " ", "0", ",", " ", "0", ",", " ", "1", ")">>

\* the object literal namedColors, by its own keys
namedColors ==
  (<<"w", "h", "i", "t", "e">> :> Str(<<"#", "f", "f", "f", "f", "f", "f">>))
  @@ (<<"b", "l", "a", "c", "k">> :> Str(<<"#", "0", "0", "0", "0", "0", "0">>))
  @@ (<<"r", "e", "d">> :> Str(<<"#", "f", "f", "0", "0", "0", "0">>))
  @@ (<<"g", "r", "e", "e", "n">> :> Str(<<"#", "0", "0", "f", "f", "0", "0">>))
  @@ (<<"b", "l", "u", "e">> :> Str(<<"#", "0", "0", "0", "0", "f", "f">>))

\* the lower-case property names an object literal inherits from Object.prototype
InheritedKeys == {<<"c", "o", "n", "s", "t", "r", "u", "c", "t", "o", "r">>, <<"_", "_", "p", "r", "o", "t", "o", "_", "_">>}

\* namedColors[key]: an own key, else an inherited member (a function or object), else undefined
NamedColorLookup(key) ==
  IF key \in DOMAIN namedColors THEN namedColors[key]
  ELSE IF key \in InheritedKeys THEN EmptyObj
  ELSE Undefined

RECURSIVE parseColor(_, _)
parseColor(color, opacity) ==
  IF ~IsStr(color) THEN Str(OpaqueBlack)
  ELSE IF StartsWith(color.str, <<"#">>) THEN
    LET hex == Tail(color.str)
        r == ParseIntHex(Substr2(hex, 0))
        g == ParseIntHex(Substr2(hex, 2))
        b == ParseIntHex(Substr2(hex, 4))
    IN Str(<<"r", "g", "b", "a", "(">> \o ToText(r) \o <<",", " ">> \o ToText(g) \o <<",", " ">>
           \o ToText(b) \o <<",", " ">> \o ToText(opacity) \o <<")">>)
  ELSE IF StartsWith(color.str, <<"r", "g", "b">>) THEN
    IF opacity # Num(10) /\ StartsWith(color.str, <<"r", "g", "b", "(">>) THEN
      Str(ReplaceFirst(ReplaceFirst(color.str, <<"r", "g", "b", "(">>, <<"r", "g", "b", "a", "(">>),
                       <<")">>, <<",", " ">> \o ToText(opacity) \o <<")">>))
    ELSE color
  ELSE IF Truthy(NamedColorLookup(ToLowerCase(color.str))) THEN
    parseColor(NamedColorLookup(ToLowerCase(color.str)), opacity)
  ELSE color

DefaultFontFamily == <<"A", "r", "i", "a", "l", ",", " ", "s", "a", "n", "s", "-", "s", "e", "r", "i", "f">>

\* parseFont(fontFamily = [], fontSize = 12): a default parameter replaces
\* undefined only.  fontFamily.length throws on null; fontFamily.join is not
\* a function on a non-empty string.
parseFont(fontFamilyArg, fontSizeArg) ==
  LET fontFamily == IF IsUndefined(fontFamilyArg) THEN List(<<>>) ELSE fontFamilyArg
      fontSize == IF IsUndefined(fontSizeArg) THEN Num(120) ELSE fontSizeArg
      hasLength == (IsList(fontFamily) /\ Len(fontFamily.list) > 0)
                   \/ (IsStr(fontFamily) /\ Len(fontFamily.str) > 0)
  IN IF IsNull(fontFamily) THEN TypeError
     ELSE IF hasLength /\ ~IsList(fontFamily) THEN TypeError
     ELSE Str(ToText(fontSize) \o <<"p", "x", " ">>
              \o (IF hasLength THEN Join(fontFamily.list, <<",", " ">>) ELSE DefaultFontFamily))

(***************************************************************************)
(* Style compiler: one OpenLayers style descriptor per Mapbox GL layer.    *)
(* A layer is [id, type, sourceLayer, paint, layout]; sourceLayer = ""     *)
(* is a layer without 'source-layer'; paint and layout are undefined or    *)
(* objects.  A descriptor is the record of options its constructor got.    *)
(***************************************************************************)
createDefaultPointStyle ==
  [image |-> [radius |-> Num(30),
              fill |-> [color |-> Str(<<"#", "f", "f", "0", "0", "0", "0">>)],
              stroke |-> [color |-> Str(<<"#", "f", "f", "f", "f", "f", "f">>), width |-> Num(10)]]]

createFillStyle(layer) ==
  LET paint == Or(layer.paint, EmptyObj)
  IN [fill |-> [color |-> parseColor(Or(Get(paint, "fill-color"), Str(BlackHex)),
                                     Or(Get(paint, "fill-opacity"), Num(10)))],
      stroke |-> IF Truthy(Get(paint, "fill-outline-color"))
                 THEN [color |-> parseColor(Get(paint, "fill-outline-color"), Num(10)),
                       width |-> Num(10)]
                 ELSE Undefined]

createLineStyle(layer) ==
  LET paint == Or(layer.paint, EmptyObj)
  IN [stroke |-> [color |-> parseColor(Or(Get(paint, "line-color"), Str(BlackHex)),
                                       Or(Get(paint, "line-opacity"), Num(10))),
                  width |-> Or(Get(paint, "line-width"), Num(10)),
                  lineCap |-> Or(Get(paint, "line-cap"), Str(<<"r", "o", "u", "n", "d">>)),
                  lineJoin |-> Or(Get(paint, "line-join"), Str(<<"r", "o", "u", "n", "d">>)),
                  lineDash |-> Or(Get(paint, "line-dasharray"), Undefined)]]

createSymbolStyle(layer) ==
  LET layout == Or(layer.layout, EmptyObj)
      paint == Or(layer.paint, EmptyObj)
      textField == Get(layout, "text-field")
      iconImage == Get(layout, "icon-image")
      font == parseFont(Get(layout, "text-font"), Get(layout, "text-size"))
  IN IF Truthy(textField) THEN
       IF IsThrow(font) THEN font
       ELSE [text |-> [text |-> textField,
                       font |-> font,
                       fill |-> [color |-> parseColor(Or(Get(paint, "text-color"), Str(BlackHex)),
                                                      Or(Get(paint, "text-opacity"), Num(10)))],
                       stroke |-> IF Truthy(Get(paint, "text-halo-color"))
                                  THEN [color |-> parseColor(Get(paint, "text-halo-color"), Num(10)),
                                        width |-> Or(Get(paint, "text-halo-width"), Num(0))]
                                  ELSE Undefined,
                       offsetX |-> IF Truthy(Get(layout, "text-offset"))
                                   THEN Times8(Index(Get(layout, "text-offset"), 0)) ELSE Num(0),
                       offsetY |-> IF Truthy(Get(layout, "text-offset"))
                                   THEN Times8(Index(Get(layout, "text-offset"), 1)) ELSE Num(0),
                       textAlign |-> Or(Get(layout, "text-anchor"), Str(<<"c", "e", "n", "t", "e", "r">>))]]
     ELSE IF Truthy(iconImage) THEN
       [image |-> [src |-> iconImage, scale |-> Or(Get(layout, "icon-size"), Num(10))]]
     ELSE createDefaultPointStyle

createCircleStyle(layer) ==
  LET paint == Or(layer.paint, EmptyObj)
  IN [image |-> [radius |-> Or(Get(paint, "circle-radius"), Num(50)),
                 fill |-> [color |-> parseColor(Or(Get(paint, "circle-color"), Str(BlackHex)),
                                                Or(Get(paint, "circle-opacity"), Num(10)))],
                 stroke |-> IF Truthy(Get(paint, "circle-stroke-color"))
                            THEN [color |-> parseColor(Get(paint, "circle-stroke-color"),
                                                       Or(Get(paint, "circle-stroke-opacity"), Num(10))),
                                  width |-> Or(Get(paint, "circle-stroke-width"), Num(0))]
                            ELSE Undefined]]

createBackgroundStyle(layer) ==
  LET paint == Or(layer.paint, EmptyObj)
  IN [fill |-> [color |-> parseColor(Or(Get(paint, "background-color"), Str(BackgroundHex)),
                                     Or(Get(paint, "background-opacity"), Num(10)))]]

\* convertMapboxLayerToOpenLayers styling a layer of any other type as a background
convertMapboxLayerToOpenLayers_styledDefault(layer) ==
  CASE layer.type = "fill" -> createFillStyle(layer)
    [] layer.type = "line" -> createLineStyle(layer)
    [] layer.type = "symbol" -> createSymbolStyle(layer)
    [] layer.type = "circle" -> createCircleStyle(layer)
    [] OTHER -> createBackgroundStyle(layer)

\* null for an unsupported type, TypeError when the conversion throws
convertMapboxLayerToOpenLayers(layer) ==
  CASE layer.type = "fill" -> createFillStyle(layer)
    [] layer.type = "line" -> createLineStyle(layer)
    [] layer.type = "symbol" -> createSymbolStyle(layer)
    [] layer.type = "circle" -> createCircleStyle(layer)
    [] layer.type = "background" -> createBackgroundStyle(layer)
    [] OTHER -> Null

(***************************************************************************)
(* Fallback styles                                                         *)
(***************************************************************************)
createDefaultStyleForGeometry(geometryType) ==
  CASE geometryType \in {"Polygon", "MultiPolygon"} ->
         [fill |-> [color |-> Str(<<"r", "g", "b", "a", "(", "0", ",", " ", "1", "0", "0", ",", " ", "2", "5", "5", ",", " ", "0", ".", "3", ")">>)],
          stroke |-> [color |-> Str(<<"#", "0", "0", "6", "4", "f", "f">>), width |-> Num(20)]]
    [] geometryType \in {"LineString", "MultiLineString"} ->
         [stroke |-> [color |-> Str(<<"#", "f", "f", "6", "6", "0", "0">>), width |-> Num(20)]]
    [] geometryType \in {"Point", "MultiPoint"} -> createDefaultPointStyle
    [] OTHER ->
         [stroke |-> [color |-> Str(<<"#", "6", "6", "6", "6", "6", "6">>), width |-> Num(10)],
          fill |-> [color |-> Str(<<"r", "g", "b", "a", "(", "2", "5", "5", ",", " ", "2", "5", "5", ",", " ", "2", "5", "5", ",", " ", "0", ".", "8", ")">>)]]

(***************************************************************************)
(* preprocessStyles: the cache is a function from layer ids to descriptors *)
(***************************************************************************)
EmptyCache == <<>>

\* CacheSet keeping the entry an id already has
CacheSet_keepFirst(cache, id, style) ==
  [k \in DOMAIN cache \cup {id} |-> IF k \in DOMAIN cache THEN cache[k] ELSE style]

\* Map.prototype.set
CacheSet(cache, id, style) ==
  [k \in DOMAIN cache \cup {id} |-> IF k = id THEN style ELSE cache[k]]

\* The forEach callback applied to layers[k], layers[k+1], ...: the cache when
\* the loop ends, and whether a conversion threw and ended it early.
RECURSIVE forEachLayer(_, _, _)
forEachLayer(layers, k, cache) ==
  IF k > Len(layers) THEN [cache |-> cache, threw |-> FALSE]
  ELSE LET olStyle == convertMapboxLayerToOpenLayers(layers[k])
       IN IF IsThrow(olStyle) THEN [cache |-> cache, threw |-> TRUE]
          ELSE IF Truthy(olStyle) THEN forEachLayer(layers, k + 1, CacheSet(cache, layers[k].id, olStyle))
          ELSE forEachLayer(layers, k + 1, cache)

\* preprocessStyles without the clear() of the cache
preprocessStyles_noClear(style, cache) ==
  IF ~Truthy(style) THEN [cache |-> cache, threw |-> FALSE]
  ELSE IF ~IsList(style.layers) THEN [cache |-> cache, threw |-> TRUE]
  ELSE forEachLayer(style.layers.list, 1, cache)

\* preprocessStyles() on the fields (style, cache).  A document whose layers
\* member is not an array makes layers.forEach throw after the cache is cleared.
preprocessStyles(style, cache) ==
  IF ~Truthy(style) THEN [cache |-> cache, threw |-> FALSE]
  ELSE IF ~IsList(style.layers) THEN [cache |-> EmptyCache, threw |-> TRUE]
  ELSE forEachLayer(style.layers.list, 1, EmptyCache)

(***************************************************************************)
(* The style function returned by createPdokStyleFunction                  *)
(***************************************************************************)
\* feature.getGeometry()?.getType() of a feature without geometry
NoGeometry == "undefined"

\* properties['layer'] || properties['source-layer'], "" when both are empty or absent
SourceLayerOf(properties) ==
  IF properties.layer # "" THEN properties.layer ELSE properties.sourceLayer

\* geometryType || ''
GeometryOrEmpty(geometryType) == IF geometryType = NoGeometry THEN "" ELSE geometryType

\* matchesLayer with the source-layer test applied to every layer
matchesLayer_exclusive(layer, sourceLayer, geometryType) ==
  IF sourceLayer # "" THEN layer.sourceLayer = sourceLayer
  ELSE IF GeometryOrEmpty(geometryType) # "" THEN
    CASE geometryType \in {"Polygon", "MultiPolygon"} -> layer.type = "fill"
      [] geometryType \in {"LineString", "MultiLineString"} -> layer.type = "line"
      [] geometryType \in {"Point", "MultiPoint"} -> layer.type = "circle" \/ layer.type = "symbol"
      [] OTHER -> FALSE
  ELSE FALSE

\* matchesLayer treating any other geometry type as a polygon
matchesLayer_otherAsPolygon(layer, sourceLayer, geometryType) ==
  IF sourceLayer # "" /\ layer.sourceLayer # "" THEN layer.sourceLayer = sourceLayer
  ELSE IF GeometryOrEmpty(geometryType) # "" THEN
    CASE geometryType \in {"LineString", "MultiLineString"} -> layer.type = "line"
      [] geometryType \in {"Point", "MultiPoint"} -> layer.type = "circle" \/ layer.type = "symbol"
      [] OTHER -> layer.type = "fill"
  ELSE FALSE

\* the filter callback
matchesLayer(layer, sourceLayer, geometryType) ==
  IF sourceLayer # "" /\ layer.sourceLayer # "" THEN layer.sourceLayer = sourceLayer
  ELSE IF GeometryOrEmpty(geometryType) # "" THEN
    CASE geometryType \in {"Polygon", "MultiPolygon"} -> layer.type = "fill"
      [] geometryType \in {"LineString", "MultiLineString"} -> layer.type = "line"
      [] geometryType \in {"Point", "MultiPoint"} -> layer.type = "circle" \/ layer.type = "symbol"
      [] OTHER -> FALSE
  ELSE FALSE

matchingLayers(style, sourceLayer, geometryType) ==
  LET Test(layer) == matchesLayer(layer, sourceLayer, geometryType)
  IN SelectSeq(style.layers.list, Test)

\* Map.prototype.get: undefined for a key the map does not hold
CacheGet(cache, styleKey) == IF styleKey \in DOMAIN cache THEN cache[styleKey] ELSE Undefined

\* pdokStyleFunction taking the first matching layer that has a cache entry
pdokStyleFunction_firstCached(feature, style, cache) ==
  LET geometryType == feature.geometryType
      sourceLayer == SourceLayerOf(feature.properties)
      matching == IF Truthy(style) THEN matchingLayers(style, sourceLayer, geometryType) ELSE <<>>
      InCache(layer) == Truthy(CacheGet(cache, layer.id))
      cached == SelectSeq(matching, InCache)
  IN [sourceLayer |-> sourceLayer,
      geometryType |-> geometryType,
      matched |-> IF matching # <<>> THEN matching[1] ELSE Null,
      readCache |-> matching # <<>>,
      fromCache |-> cached # <<>>,
      style |-> IF cached # <<>> THEN cache[cached[1].id]
                ELSE createDefaultStyleForGeometry(GeometryOrEmpty(geometryType))]

\* pdokStyleFunction using the catch-all style whenever there is no document
pdokStyleFunction_unknownOnNull(feature, style, cache) ==
  LET geometryType == feature.geometryType
      sourceLayer == SourceLayerOf(feature.properties)
      matching == IF Truthy(style) THEN matchingLayers(style, sourceLayer, geometryType) ELSE <<>>
      cachedStyle == IF matching # <<>> THEN CacheGet(cache, matching[1].id) ELSE Undefined
  IN [sourceLayer |-> sourceLayer,
      geometryType |-> geometryType,
      matched |-> IF matching # <<>> THEN matching[1] ELSE Null,
      readCache |-> matching # <<>>,
      fromCache |-> Truthy(cachedStyle),
      style |-> IF Truthy(cachedStyle) THEN cachedStyle
                ELSE IF ~Truthy(style) THEN createDefaultStyleForGeometry("")
                ELSE createDefaultStyleForGeometry(GeometryOrEmpty(geometryType))]

\* pdokStyleFunction returning what the cache lookup gave, without testing it
pdokStyleFunction_uncheckedGet(feature, style, cache) ==
  LET geometryType == feature.geometryType
      sourceLayer == SourceLayerOf(feature.properties)
      matching == IF Truthy(style) THEN matchingLayers(style, sourceLayer, geometryType) ELSE <<>>
      cachedStyle == IF matching # <<>> THEN CacheGet(cache, matching[1].id) ELSE Undefined
  IN [sourceLayer |-> sourceLayer,
      geometryType |-> geometryType,
      matched |-> IF matching # <<>> THEN matching[1] ELSE Null,
      readCache |-> matching # <<>>,
      fromCache |-> Truthy(cachedStyle),
      style |-> IF matching # <<>> THEN cachedStyle
                ELSE createDefaultStyleForGeometry(GeometryOrEmpty(geometryType))]

\* One call of the style function: the style returned, with the locals of the
\* call (sourceLayer, geometryType, the first matching layer or null when
\* there is none, whether the cache was read and whether its entry was returned).
\* pdokStyleFunction compiling the layer it matched at the call instead of
\* reading the cache
pdokStyleFunction_compilesMatched(feature, style, cache) ==
  LET geometryType == feature.geometryType
      sourceLayer == SourceLayerOf(feature.properties)
      matching == IF Truthy(style) THEN matchingLayers(style, sourceLayer, geometryType) ELSE <<>>
      cachedStyle == IF matching # <<>> THEN convertMapboxLayerToOpenLayers(matching[1]) ELSE Undefined
  IN [sourceLayer |-> sourceLayer,
      geometryType |-> geometryType,
      matched |-> IF matching # <<>> THEN matching[1] ELSE Null,
      readCache |-> matching # <<>>,
      fromCache |-> Truthy(cachedStyle),
      style |-> IF Truthy(cachedStyle) THEN cachedStyle
                ELSE createDefaultStyleForGeometry(GeometryOrEmpty(geometryType))]

pdokStyleFunction(feature, style, cache) ==
  LET geometryType == feature.geometryType
      sourceLayer == SourceLayerOf(feature.properties)
      matching == IF Truthy(style) THEN matchingLayers(style, sourceLayer, geometryType) ELSE <<>>
      cachedStyle == IF matching # <<>> THEN CacheGet(cache, matching[1].id) ELSE Undefined
  IN [sourceLayer |-> sourceLayer,
      geometryType |-> geometryType,
      matched |-> IF matching # <<>> THEN matching[1] ELSE Null,
      readCache |-> matching # <<>>,
      fromCache |-> Truthy(cachedStyle),
      style |-> IF Truthy(cachedStyle) THEN cachedStyle
                ELSE createDefaultStyleForGeometry(GeometryOrEmpty(geometryType))]

(***************************************************************************)
(* Inputs: the style documents the server may answer with and the features *)
(* the renderer may pass to the style function                             *)
(***************************************************************************)
MaxLayers == 2

LayerIds == {"a", "b"}
LayerSourceLayers == {"", "water"}

\* type, paint and layout of the layers: a layer for polygons, for lines and
\* for points, a symbol layer, a layer of an unsupported type
LayerKinds ==
  { [type |-> "fill",
     paint |-> Obj(("fill-color" :> Str(<<"#", "0", "0", "0", "0", "f", "f">>)) @@ ("fill-opacity" :> Num(5))),
     layout |-> Undefined],
    [type |-> "line",
     paint |-> Obj(("line-color" :> Str(<<"r", "e", "d">>)) @@ ("line-width" :> Num(20))),
     layout |-> Undefined],
    [type |-> "circle", paint |-> EmptyObj, layout |-> Undefined],
    [type |-> "raster", paint |-> Undefined, layout |-> Undefined],
    [type |-> "symbol",
     paint |-> Obj("text-halo-color" :> Str(<<"w", "h", "i", "t", "e">>)),
     layout |-> Obj(("text-field" :> Str(<<"{", "n", "}">>))
                    @@ ("text-font" :> List(<<Str(<<"A", "r", "i", "a", "l">>), Str(<<"B", "o", "l", "d">>)>>))
                    @@ ("text-size" :> Num(100))
                    @@ ("text-offset" :> List(<<Num(10), Num(5)>>)))],
    \* text-font of the wrong kind: a string instead of a list of strings
    [type |-> "symbol", paint |-> Undefined,
     layout |-> Obj(("text-field" :> Str(<<"{", "n", "}">>)) @@ ("text-font" :> Str(<<"A", "r", "i", "a", "l">>)))] }

Layers ==
  { [id |-> id, type |-> k.type, sourceLayer |-> sl, paint |-> k.paint, layout |-> k.layout] :
      id \in LayerIds, sl \in LayerSourceLayers, k \in LayerKinds }

LayerSeqs == UNION { [1..n -> Layers] : n \in 0..MaxLayers }

\* what the style request may deliver: JSON null, a document without a layers
\* array, or a document with up to MaxLayers layers
Responses ==
  {Null, [layers |-> Undefined]} \cup { [layers |-> List(ls)] : ls \in LayerSeqs }

GeometryTypes ==
  {"Point", "LineString", "Polygon", "MultiPolygon", "GeometryCollection", NoGeometry}

\* properties.layer and properties['source-layer'], "" when absent: neither,
\* the second only, and both (the first wins)
FeatureProperties ==
  { [layer |-> "", sourceLayer |-> ""],
    [layer |-> "", sourceLayer |-> "water"],
    [layer |-> "roads", sourceLayer |-> "water"] }

Features ==
  { [geometryType |-> g, properties |-> p] : g \in GeometryTypes, p \in FeatureProperties }

\* no call of the style function yet
NoCall == [none |-> TRUE]

(***************************************************************************)
(* MapComponent                                                            *)
(***************************************************************************)
VARIABLES
  pc,             \* where initializeMap is: "created", "awaitStyle", "awaitTileMatrixSet", "done"
  response,       \* what the style request delivered (Undefined: nothing yet or an error)
  pdokStyle,      \* this.pdokStyle
  styleCache,     \* this.styleCache
  brtLayerOnMap,  \* the vector tile layer carrying the style function is on the map
  rendered,       \* the last call of the style function, NoCall before the first
  passLog,        \* the cache before the first direct call of preprocessStyles and the
                  \* outcome of each call: the cache, and whether the call threw (SpecCompile)
  mapTarget,      \* the target of this.map: NoTarget for the map the field is
                  \* initialised with and after setTarget(undefined), else "map"
  called,         \* the last direct call of a parser or of the compiler, NoCall before
                  \* the first (SpecCalls)
  brtPc,          \* LayersComponent: where createBrtLayer().then(...) is: "created", "pending", "done"
  bgtPc,          \* where createBgtLayer().then(...) is: "created", "awaitTileMatrixSet",
                  \* "awaitApplyStyle", "settled" (the promise is settled), "done" (the callback ran)
  tileMatrixSetResponse, \* what the request of BgtlayerService.getTileMatrixSet delivered:
                  \* Undefined while there is no answer, HttpError, or the body
  applyStyleResult, \* how applyStyle(layer, styleUrl) ended: "none" before, "resolved", "rejected"
  bgtLayer,       \* the layer createBgtVectorTileLayer made, Null before, with the style it carries
  bgtLayerInfo,   \* what createBgtLayer resolved to, Undefined while it is pending
  componentLayers, \* LayersComponent._layers: the layers added, by name
  bgtRendered     \* the last call of the fallback style function of the BGT layer

mapVars == <<pc, response, pdokStyle, styleCache, brtLayerOnMap, rendered, passLog, mapTarget>>

layersVars ==
  <<brtPc, bgtPc, tileMatrixSetResponse, applyStyleResult, bgtLayer, bgtLayerInfo,
    componentLayers, bgtRendered>>

vars == <<mapVars, called, layersVars>>

NoTarget == "undefined"

\* LayersComponent and BgtlayerService after construction
LayersCreated ==
  /\ brtPc = "created"
  /\ bgtPc = "created"
  /\ tileMatrixSetResponse = Undefined
  /\ applyStyleResult = "none"
  /\ bgtLayer = Null
  /\ bgtLayerInfo = Undefined
  /\ componentLayers = <<>>
  /\ bgtRendered = NoCall

Init ==
  /\ pc = "created"
  /\ response = Undefined
  /\ pdokStyle = Null
  /\ styleCache = EmptyCache
  /\ brtLayerOnMap = FALSE
  /\ rendered = NoCall
  /\ passLog = <<>>
  /\ mapTarget = NoTarget
  /\ called = NoCall
  /\ LayersCreated

\* ngOnInit -> initializeMap up to the await of the style request: the map is
\* created on the element 'map'
ngOnInit ==
  /\ pc = "created"
  /\ pc' = "awaitStyle"
  /\ mapTarget' = "map"
  /\ UNCHANGED <<response, pdokStyle, styleCache, brtLayerOnMap, rendered, passLog>>
  /\ UNCHANGED <<called, layersVars>>

\* loadPdokStyleResolved with a catch block that leaves pdokStyle as it is
loadPdokStyleResolved_keepStyle ==
  /\ pc = "awaitStyle"
  /\ \E r \in Responses :
       LET pass == preprocessStyles(r, styleCache)
       IN /\ response' = r
          /\ styleCache' = pass.cache
          /\ pdokStyle' = r
  /\ pc' = "awaitTileMatrixSet"
  /\ UNCHANGED <<brtLayerOnMap, rendered, passLog>>
  /\ UNCHANGED <<mapTarget, called, layersVars>>

\* loadPdokStyle resumes with the response: pdokStyle is set, preprocessStyles
\* runs to its end, the catch block resets pdokStyle when it threw; then
\* initializeMap goes on to addPdokBrtLayer, up to the await of the tile matrix set.
loadPdokStyleResolved ==
  /\ pc = "awaitStyle"
  /\ \E r \in Responses :
       LET pass == preprocessStyles(r, styleCache)
       IN /\ response' = r
          /\ styleCache' = pass.cache
          /\ pdokStyle' = IF pass.threw THEN Null ELSE r
  /\ pc' = "awaitTileMatrixSet"
  /\ UNCHANGED <<brtLayerOnMap, rendered, passLog>>
  /\ UNCHANGED <<mapTarget, called, layersVars>>

\* the style request fails: the catch block of loadPdokStyle
loadPdokStyleRejected ==
  /\ pc = "awaitStyle"
  /\ pdokStyle' = Null
  /\ pc' = "awaitTileMatrixSet"
  /\ UNCHANGED <<response, styleCache, brtLayerOnMap, rendered, passLog>>
  /\ UNCHANGED <<mapTarget, called, layersVars>>

\* addPdokBrtLayer resumes with a tile matrix set: the layer is created with
\* the style function and added to the map; initializeMap ends.
addPdokBrtLayerResolved ==
  /\ pc = "awaitTileMatrixSet"
  /\ brtLayerOnMap' = TRUE
  /\ pc' = "done"
  /\ UNCHANGED <<response, pdokStyle, styleCache, rendered, passLog>>
  /\ UNCHANGED <<mapTarget, called, layersVars>>

\* getTileMatrixSet returned null (the request failed or delivered null): no layer
addPdokBrtLayerNoTileMatrixSet ==
  /\ pc = "awaitTileMatrixSet"
  /\ pc' = "done"
  /\ UNCHANGED <<response, pdokStyle, styleCache, brtLayerOnMap, rendered, passLog>>
  /\ UNCHANGED <<mapTarget, called, layersVars>>

\* renderFeature with a style function that stores the fallback style it
\* returns under the id of the layer it matched
renderFeature_cachesFallback ==
  /\ brtLayerOnMap
  /\ mapTarget = "map"
  /\ \E feature \in Features :
       LET call == pdokStyleFunction(feature, pdokStyle, styleCache)
       IN /\ rendered' = call
          /\ styleCache' = IF call.readCache /\ ~call.fromCache
                           THEN CacheSet(styleCache, call.matched.id, call.style)
                           ELSE styleCache
  /\ UNCHANGED <<pc, response, pdokStyle, brtLayerOnMap, passLog>>
  /\ UNCHANGED <<mapTarget, called, layersVars>>

\* the renderer calls the style function of the layer for a feature; the map
\* renders only while it has a target
renderFeature ==
  /\ brtLayerOnMap
  /\ mapTarget = "map"
  /\ \E feature \in Features : rendered' = pdokStyleFunction(feature, pdokStyle, styleCache)
  /\ UNCHANGED <<pc, response, pdokStyle, styleCache, brtLayerOnMap, passLog>>
  /\ UNCHANGED <<mapTarget, called, layersVars>>

Next ==
  \/ ngOnInit
  \/ loadPdokStyleResolved
  \/ loadPdokStyleRejected
  \/ addPdokBrtLayerResolved
  \/ addPdokBrtLayerNoTileMatrixSet
  \/ renderFeature

Spec == Init /\ [][Next]_vars

(***************************************************************************)
(* MapComponent with its teardown                                          *)
(***************************************************************************)
\* ngOnDestroy, which the framework calls once on a component it has
\* initialised: the map loses its target; the pending steps of initializeMap
\* are left as they are
ngOnDestroy ==
  /\ mapTarget = "map"
  /\ mapTarget' = NoTarget
  /\ UNCHANGED <<pc, response, pdokStyle, styleCache, brtLayerOnMap, rendered, passLog>>
  /\ UNCHANGED <<called, layersVars>>

NextLifecycle ==
  \/ ngOnInit
  \/ loadPdokStyleResolved
  \/ loadPdokStyleRejected
  \/ addPdokBrtLayerResolved
  \/ addPdokBrtLayerNoTileMatrixSet
  \/ renderFeature
  \/ ngOnDestroy

SpecLifecycle == Init /\ [][NextLifecycle]_vars

(***************************************************************************)
(* preprocessStyles on its own: called MaxPasses times on one document,    *)
(* starting from any cache                                                 *)
(***************************************************************************)
MaxPasses == 2

\* what the cache may hold before the first pass: nothing, or entries left by
\* an earlier document, under an id of the document or under another id
EarlierCaches ==
  { EmptyCache,
    "a" :> createDefaultPointStyle,
    "z" :> createDefaultPointStyle,
    ("a" :> createDefaultStyleForGeometry("")) @@ ("z" :> createDefaultPointStyle) }

\* the layers of the documents compiled: the other branches of the compiler too
CompileLayerKinds ==
  LayerKinds \cup
  { [type |-> "fill", paint |-> Undefined, layout |-> Undefined],
    [type |-> "background", paint |-> Undefined, layout |-> Undefined],
    [type |-> "symbol", paint |-> Undefined, layout |-> Undefined],
    [type |-> "symbol", paint |-> Undefined,
     layout |-> Obj("icon-image" :> Str(<<"p", "i", "n">>))],
    [type |-> "symbol", paint |-> Undefined,
     layout |-> Obj("text-field" :> Str(<<"{", "n", "}">>))] }

CompileLayers ==
  { [id |-> id, type |-> k.type, sourceLayer |-> "", paint |-> k.paint, layout |-> k.layout] :
      id \in LayerIds, k \in CompileLayerKinds }

CompileDocuments ==
  {[layers |-> Undefined]}
    \cup { [layers |-> List(ls)] : ls \in UNION { [1..n -> CompileLayers] : n \in 0..MaxLayers } }

InitCompile ==
  /\ pc = "compile"
  /\ response = Undefined
  /\ pdokStyle \in CompileDocuments
  /\ styleCache \in EarlierCaches
  /\ brtLayerOnMap = FALSE
  /\ rendered = NoCall
  /\ passLog = <<[cache |-> styleCache, threw |-> FALSE]>>
  /\ mapTarget = NoTarget
  /\ called = NoCall
  /\ LayersCreated

\* one call of preprocessStyles(); an exception goes to the caller and
\* leaves the fields as they were when it was thrown
preprocessStylesCall ==
  /\ pc = "compile"
  /\ Len(passLog) <= MaxPasses
  /\ styleCache' = preprocessStyles(pdokStyle, styleCache).cache
  /\ passLog' = Append(passLog, preprocessStyles(pdokStyle, styleCache))
  /\ UNCHANGED <<pc, response, pdokStyle, brtLayerOnMap, rendered>>
  /\ UNCHANGED <<mapTarget, called, layersVars>>

NextCompile == preprocessStylesCall

SpecCompile == InitCompile /\ [][NextCompile]_vars

(***************************************************************************)
(* The parser of colours and the compiler on their own: direct calls of    *)
(* parseColor and of convertMapboxLayerToOpenLayers                        *)
(***************************************************************************)
MaxColorLen == 3
MaxPaintHalves == 3

ColorAlphabet == {"r", "e", "d", "E", "#"}

\* the colour arguments: every string over ColorAlphabet of up to MaxColorLen
\* characters, hex, rgb and named colours, other words, and values that are
\* not strings
ColorValues ==
  { Str(c) : c \in UNION { [1..n -> ColorAlphabet] : n \in 0..MaxColorLen } }
    \cup { Str(c) : c \in DOMAIN namedColors \cup InheritedKeys }
    \cup { Str(<<"W", "h", "i", "t", "e">>),
           Str(<<"B", "L", "U", "E">>),
           Str(<<"o", "r", "a", "n", "g", "e">>),
           Str(<<"#", "f", "f", "8", "0", "0", "0">>),
           Str(<<"#", "F", "F", "F">>),
           Str(<<"r", "g", "b", "(", "1", ",", "2", ",", "3", ")">>),
           Str(<<"r", "g", "b", "a", "(", "1", ",", "2", ",", "3", ",", "0", ")">>),
           Undefined,
           Num(10),
           List(<<Str(<<"g", "e", "t">>), Str(<<"c">>)>>) }

Opacities == {Num(0), Num(5), Num(10)}

\* the numbers a paint property may carry: 0, 0.5, 1, ...
PaintNumbers == { Num(5 * k) : k \in 0..MaxPaintHalves }

\* a paint property: absent, or present with one of the values
Prop(key, values) == {<<>>} \cup { key :> v : v \in values }

PaintColor == Str(<<"#", "0", "0", "0", "0", "f", "f">>)

\* fill, line and circle layers without paint and with every combination of
\* colour, opacity and size absent or present
PaintedLayers ==
  { [id |-> "a", type |-> t, sourceLayer |-> "", paint |-> Undefined, layout |-> Undefined] :
      t \in {"fill", "line", "circle"} }
    \cup { [id |-> "a", type |-> "fill", sourceLayer |-> "", paint |-> Obj(c @@ o), layout |-> Undefined] :
             c \in Prop("fill-color", {PaintColor}), o \in Prop("fill-opacity", PaintNumbers) }
    \cup { [id |-> "a", type |-> "line", sourceLayer |-> "", paint |-> Obj(c @@ o @@ w), layout |-> Undefined] :
             c \in Prop("line-color", {PaintColor}), o \in Prop("line-opacity", PaintNumbers),
             w \in Prop("line-width", PaintNumbers) }
    \cup { [id |-> "a", type |-> "circle", sourceLayer |-> "", paint |-> Obj(c @@ o @@ r), layout |-> Undefined] :
             c \in Prop("circle-color", {PaintColor}), o \in Prop("circle-opacity", PaintNumbers),
             r \in Prop("circle-radius", PaintNumbers) }

\* parseColor(color, opacity)
parseColorCall ==
  /\ \E color \in ColorValues, opacity \in Opacities :
       called' = [fn |-> "parseColor", color |-> color, opacity |-> opacity,
                  result |-> parseColor(color, opacity)]
  /\ UNCHANGED <<mapVars, layersVars>>

\* convertMapboxLayerToOpenLayers(layer)
convertMapboxLayerToOpenLayersCall ==
  /\ \E layer \in PaintedLayers :
       called' = [fn |-> "convertMapboxLayerToOpenLayers", layer |-> layer,
                  result |-> convertMapboxLayerToOpenLayers(layer)]
  /\ UNCHANGED <<mapVars, layersVars>>

NextCalls ==
  \/ parseColorCall
  \/ convertMapboxLayerToOpenLayersCall

SpecCalls == Init /\ [][NextCalls]_vars

(***************************************************************************)
(* LayersComponent and BgtlayerService                                     *)
(***************************************************************************)
\* the request failed
HttpError == [throw |-> "HttpErrorResponse"]

\* what the tile matrix set request may deliver: JSON null (an empty body),
\* or a tile matrix set
TileMatrixSetBodies ==
  {Null, Obj("id" :> Str(<<"N", "e", "t", "h", "e", "r", "l", "a", "n", "d", "s", "R", "D", "N", "e", "w", "Q", "u", "a", "d">>))}

\* what createBrtLayer of BrtlayerService may resolve to, as far as the
\* callback reads it: null, or a LayerInfo with its layer
BrtLayerInfos == {Null, [layer |-> "BRT"]}

\* the layer is created without a style
createBgtVectorTileLayer(tileMatrixSet) == [name |-> "BGT", style |-> "default"]

BgtLayerInfo ==
  [layer |-> "BGT", name |-> "BGT", visible |-> TRUE, type |-> "vector-tile", projection |-> "EPSG:28992"]

\* the function createFallbackStyleFunction returns, by the geometry type
createFallbackStyleFunction(geometryType) ==
  CASE geometryType \in {"Polygon", "MultiPolygon"} ->
         [fill |-> [color |-> Str(<<"r", "g", "b", "a", "(", "2", "0", "0", ",", " ", "2", "0", "0", ",", " ", "2", "0", "0", ",", " ", "0", ".", "6", ")">>)],
          stroke |-> [color |-> Str(<<"#", "6", "6", "6", "6", "6", "6">>), width |-> Num(10)]]
    [] geometryType \in {"LineString", "MultiLineString"} ->
         [stroke |-> [color |-> Str(<<"#", "3", "3", "3", "3", "3", "3">>), width |-> Num(15)]]
    [] geometryType \in {"Point", "MultiPoint"} ->
         [image |-> [radius |-> Num(40),
                     fill |-> [color |-> Str(<<"#", "f", "f", "0", "0", "0", "0">>)],
                     stroke |-> [color |-> Str(<<"#", "f", "f", "f", "f", "f", "f">>), width |-> Num(10)]]]
    [] OTHER ->
         [stroke |-> [color |-> Str(<<"#", "6", "6", "6", "6", "6", "6">>), width |-> Num(10)],
          fill |-> [color |-> Str(<<"r", "g", "b", "a", "(", "2", "5", "5", ",", " ", "2", "5", "5", ",", " ", "2", "5", "5", ",", " ", "0", ".", "8", ")">>)]]

\* the layers of the component hold the layer of that name
InComponent(name) == \E k \in 1..Len(componentLayers) : componentLayers[k] = name

\* LayersComponent.ngOnInit: both services are asked for their layer;
\* createBgtLayer runs up to the await of the tile matrix set request
LayersComponent_ngOnInit ==
  /\ brtPc = "created"
  /\ bgtPc = "created"
  /\ brtPc' = "pending"
  /\ bgtPc' = "awaitTileMatrixSet"
  /\ UNCHANGED <<tileMatrixSetResponse, applyStyleResult, bgtLayer, bgtLayerInfo,
                 componentLayers, bgtRendered>>
  /\ UNCHANGED <<mapVars, called>>

\* the callback of createBrtLayer().then
createBrtLayerThen ==
  /\ brtPc = "pending"
  /\ \E layerInfo \in BrtLayerInfos :
       componentLayers' = IF Truthy(layerInfo) THEN Append(componentLayers, layerInfo.layer)
                          ELSE componentLayers
  /\ brtPc' = "done"
  /\ UNCHANGED <<bgtPc, tileMatrixSetResponse, applyStyleResult, bgtLayer, bgtLayerInfo, bgtRendered>>
  /\ UNCHANGED <<mapVars, called>>

\* the request of getTileMatrixSet delivers a body: createBgtLayer resumes;
\* with a truthy tile matrix set it creates the layer and calls
\* applyMapboxStyleToLayer, which runs up to the await of applyStyle;
\* otherwise it returns null
getTileMatrixSetResolved ==
  /\ bgtPc = "awaitTileMatrixSet"
  /\ \E body \in TileMatrixSetBodies :
       /\ tileMatrixSetResponse' = body
       /\ IF Truthy(body)
          THEN /\ bgtLayer' = createBgtVectorTileLayer(body)
               /\ bgtLayerInfo' = bgtLayerInfo
               /\ bgtPc' = "awaitApplyStyle"
          ELSE /\ bgtLayer' = bgtLayer
               /\ bgtLayerInfo' = Null
               /\ bgtPc' = "settled"
  /\ UNCHANGED <<brtPc, applyStyleResult, componentLayers, bgtRendered>>
  /\ UNCHANGED <<mapVars, called>>

\* the request fails: getTileMatrixSet catches the error and returns null,
\* createBgtLayer returns null
getTileMatrixSetRejected ==
  /\ bgtPc = "awaitTileMatrixSet"
  /\ tileMatrixSetResponse' = HttpError
  /\ bgtLayerInfo' = Null
  /\ bgtPc' = "settled"
  /\ UNCHANGED <<brtPc, applyStyleResult, bgtLayer, componentLayers, bgtRendered>>
  /\ UNCHANGED <<mapVars, called>>

\* applyStyle resolves: the layer carries the remote style; createBgtLayer
\* returns the LayerInfo
applyStyleResolved ==
  /\ bgtPc = "awaitApplyStyle"
  /\ applyStyleResult' = "resolved"
  /\ bgtLayer' = [bgtLayer EXCEPT !.style = "mapbox"]
  /\ bgtLayerInfo' = BgtLayerInfo
  /\ bgtPc' = "settled"
  /\ UNCHANGED <<brtPc, tileMatrixSetResponse, componentLayers, bgtRendered>>
  /\ UNCHANGED <<mapVars, called>>

\* applyStyleRejected without the catch block of applyMapboxStyleToLayer: the
\* error reaches the catch block of createBgtLayer, which returns null
applyStyleRejected_rethrows ==
  /\ bgtPc = "awaitApplyStyle"
  /\ applyStyleResult' = "rejected"
  /\ bgtLayerInfo' = Null
  /\ bgtPc' = "settled"
  /\ UNCHANGED <<brtPc, tileMatrixSetResponse, bgtLayer, componentLayers, bgtRendered>>
  /\ UNCHANGED <<mapVars, called>>

\* applyStyle rejects: the catch block of applyMapboxStyleToLayer sets the
\* fallback style function on the layer; createBgtLayer returns the LayerInfo
applyStyleRejected ==
  /\ bgtPc = "awaitApplyStyle"
  /\ applyStyleResult' = "rejected"
  /\ bgtLayer' = [bgtLayer EXCEPT !.style = "fallback"]
  /\ bgtLayerInfo' = BgtLayerInfo
  /\ bgtPc' = "settled"
  /\ UNCHANGED <<brtPc, tileMatrixSetResponse, componentLayers, bgtRendered>>
  /\ UNCHANGED <<mapVars, called>>

\* the callback of createBgtLayer().then: addLayer for a LayerInfo
createBgtLayerThen ==
  /\ bgtPc = "settled"
  /\ componentLayers' = IF Truthy(bgtLayerInfo) THEN Append(componentLayers, bgtLayerInfo.layer)
                        ELSE componentLayers
  /\ bgtPc' = "done"
  /\ UNCHANGED <<brtPc, tileMatrixSetResponse, applyStyleResult, bgtLayer, bgtLayerInfo, bgtRendered>>
  /\ UNCHANGED <<mapVars, called>>

\* the fallback style function the BGT layer carries is called for a feature
fallbackStyleFunctionCall ==
  /\ bgtLayer # Null
  /\ bgtLayer.style = "fallback"
  /\ \E feature \in Features :
       bgtRendered' = [feature |-> feature,
                       style |-> createFallbackStyleFunction(feature.geometryType)]
  /\ UNCHANGED <<brtPc, bgtPc, tileMatrixSetResponse, applyStyleResult, bgtLayer, bgtLayerInfo,
                 componentLayers>>
  /\ UNCHANGED <<mapVars, called>>

NextLayers ==
  \/ LayersComponent_ngOnInit
  \/ createBrtLayerThen
  \/ getTileMatrixSetResolved
  \/ getTileMatrixSetRejected
  \/ applyStyleResolved
  \/ applyStyleRejected
  \/ createBgtLayerThen
  \/ fallbackStyleFunctionCall

SpecLayers == Init /\ [][NextLayers]_vars

(***************************************************************************)
(* Vocabulary of the properties                                            *)
(***************************************************************************)
SupportedTypes == {"fill", "line", "symbol", "circle", "background"}

\* the layout value of the wrong kind among the inputs: text-font a string
HasWrongKind(layer) ==
  /\ layer.type = "symbol"
  /\ Truthy(layer.layout)
  /\ Truthy(Get(layer.layout, "text-field"))
  /\ IsStr(Get(layer.layout, "text-font"))

\* the style request was answered with a document carrying a list of layers
DocumentLoaded ==
  /\ pc \in {"awaitTileMatrixSet", "done"}
  /\ "layers" \in DOMAIN response
  /\ IsList(response.layers)

\* preprocessStyles was called on a document carrying a list of layers (SpecCompile)
PassDone ==
  /\ pc = "compile"
  /\ Len(passLog) >= 2
  /\ IsList(pdokStyle.layers)

\* the outcome of the last call
LastPass == passLog[Len(passLog)]

\* the geometry bucket a layer type serves
TypeFitsGeometry(type, geometryType) ==
  \/ geometryType \in {"Polygon", "MultiPolygon"} /\ type = "fill"
  \/ geometryType \in {"LineString", "MultiLineString"} /\ type = "line"
  \/ geometryType \in {"Point", "MultiPoint"} /\ type \in {"circle", "symbol"}

\* the fallback table of the specification
FallbackFor(geometryType) ==
  CASE geometryType \in {"Polygon", "MultiPolygon"} ->
         [fill |-> [color |-> Str(<<"r", "g", "b", "a", "(", "0", ",", " ", "1", "0", "0", ",", " ", "2", "5", "5", ",", " ", "0", ".", "3", ")">>)],
          stroke |-> [color |-> Str(<<"#", "0", "0", "6", "4", "f", "f">>), width |-> Num(20)]]
    [] geometryType \in {"LineString", "MultiLineString"} ->
         [stroke |-> [color |-> Str(<<"#", "f", "f", "6", "6", "0", "0">>), width |-> Num(20)]]
    [] geometryType \in {"Point", "MultiPoint"} ->
         [image |-> [radius |-> Num(30),
                     fill |-> [color |-> Str(<<"#", "f", "f", "0", "0", "0", "0">>)],
                     stroke |-> [color |-> Str(<<"#", "f", "f", "f", "f", "f", "f">>), width |-> Num(10)]]]
    [] OTHER ->
         [stroke |-> [color |-> Str(<<"#", "6", "6", "6", "6", "6", "6">>), width |-> Num(10)],
          fill |-> [color |-> Str(<<"r", "g", "b", "a", "(", "2", "5", "5", ",", " ", "2", "5", "5", ",", " ", "2", "5", "5", ",", " ", "0", ".", "8", ")">>)]]

\* the layers of the current document, none when it is null
CurrentLayers == IF Truthy(pdokStyle) THEN pdokStyle.layers.list ELSE <<>>

\* the first layer of ls whose index is in the set idx, null when idx is empty
FirstOf(ls, idx) == IF idx = {} THEN Null ELSE ls[CHOOSE k \in idx : \A h \in idx : k <= h]

(***************************************************************************)
(* C1                                                                      *)
(***************************************************************************)
\* C1 as stated: for a feature with a non-empty source-layer name the style
\* function matches a layer only if the layer's source-layer equals that
\* name, and it returns the fallback style for the geometry type when no
\* layer of the document has that source-layer.
C1_OnlySourceLayerSelects ==
  (rendered # NoCall /\ rendered.sourceLayer # "") =>
    /\ rendered.matched # Null => rendered.matched.sourceLayer = rendered.sourceLayer
    /\ (\A k \in 1..Len(CurrentLayers) : CurrentLayers[k].sourceLayer # rendered.sourceLayer)
         => rendered.style = FallbackFor(rendered.geometryType)

\* C1 amended: for a feature with a non-empty source-layer name, a layer that
\* has a source-layer is a candidate only if it equals that name, and a layer
\* without a source-layer is a candidate when its type fits the geometry
\* type; the first such layer in document order is the one matched, and the
\* fallback style is returned when there is none.
C1_SourceLayerOrGeometry ==
  (rendered # NoCall /\ rendered.sourceLayer # "") =>
    LET candidates ==
          {k \in 1..Len(CurrentLayers) :
             \/ CurrentLayers[k].sourceLayer # ""
                /\ CurrentLayers[k].sourceLayer = rendered.sourceLayer
             \/ CurrentLayers[k].sourceLayer = ""
                /\ TypeFitsGeometry(CurrentLayers[k].type, rendered.geometryType)}
    IN /\ rendered.matched = FirstOf(CurrentLayers, candidates)
       /\ candidates = {} => rendered.style = FallbackFor(rendered.geometryType)

\* a feature named after a source-layer was matched, by its geometry, to a
\* layer without source-layer, and got that layer's cached style
C1_Witness ==
  /\ rendered # NoCall
  /\ rendered.sourceLayer # ""
  /\ rendered.matched # Null
  /\ rendered.matched.sourceLayer = ""
  /\ rendered.fromCache

(***************************************************************************)
(* C2 (SpecCompile)                                                        *)
(***************************************************************************)
\* the number of layers the pass over ls processed: all of them, or those
\* before the first layer of the wrong kind
Processed(ls) ==
  LET bad == {k \in 1..Len(ls) : HasWrongKind(ls[k])}
  IN IF bad = {} THEN Len(ls) ELSE (CHOOSE k \in bad : \A h \in bad : k <= h) - 1

\* C2 as stated: when two layers of the document share an id, the cache holds
\* after a completed preprocessStyles an entry for that id, the descriptor
\* compiled from the later layer, whatever the types of the two layers.
C2_LaterLayerWins ==
  (PassDone /\ ~LastPass.threw) =>
    \A j, k \in 1..Len(pdokStyle.layers.list) :
      LET ls == pdokStyle.layers.list
      IN (j < k /\ ls[j].id = ls[k].id /\ \A m \in (k + 1)..Len(ls) : ls[m].id # ls[k].id) =>
           /\ ls[k].id \in DOMAIN styleCache
           /\ styleCache[ls[k].id] = convertMapboxLayerToOpenLayers(ls[k])

\* C2 amended: when two layers share an id, the cache holds after
\* preprocessStyles an entry for that id exactly if one of the processed
\* layers with that id has a supported type, and the entry is the descriptor
\* compiled from the last such layer in document order; the processed layers
\* are all layers, or those before the first layer whose conversion throws.
C2_LastSupportedLayerWins ==
  PassDone =>
    LET ls == pdokStyle.layers.list
    IN \A id \in LayerIds :
         (\E j, k \in 1..Len(ls) : j < k /\ ls[j].id = id /\ ls[k].id = id) =>
           LET writers == {k \in 1..Processed(ls) : ls[k].id = id /\ ls[k].type \in SupportedTypes}
           IN /\ id \in DOMAIN styleCache <=> writers # {}
              /\ writers # {} =>
                   styleCache[id] = convertMapboxLayerToOpenLayers(
                                      ls[CHOOSE k \in writers : \A h \in writers : h <= k])

\* two layers share an id, the earlier of a supported type and the later of
\* an unsupported one, and the cache holds the earlier layer's descriptor
C2_Witness ==
  /\ PassDone
  /\ ~LastPass.threw
  /\ Len(pdokStyle.layers.list) = 2
  /\ pdokStyle.layers.list[1].id = pdokStyle.layers.list[2].id
  /\ pdokStyle.layers.list[1].type = "fill"
  /\ pdokStyle.layers.list[2].type = "raster"
  /\ styleCache[pdokStyle.layers.list[1].id] = convertMapboxLayerToOpenLayers(pdokStyle.layers.list[1])

(***************************************************************************)
(* C3                                                                      *)
(***************************************************************************)
\* C3: the style function takes the first layer of the document that passes
\* its filter; it returns that layer's cache entry when the cache has one,
\* and otherwise (no entry, or no such layer) the fallback style for the
\* geometry type, whether or not a later matching layer has an entry.
C3_FirstCandidateOnly ==
  rendered # NoCall =>
    LET candidates == {k \in 1..Len(CurrentLayers) :
                         matchesLayer(CurrentLayers[k], rendered.sourceLayer, rendered.geometryType)}
        first == FirstOf(CurrentLayers, candidates)
    IN /\ rendered.matched = first
       /\ IF first # Null /\ first.id \in DOMAIN styleCache
          THEN rendered.style = styleCache[first.id]
          ELSE rendered.style = FallbackFor(rendered.geometryType)

\* the first matching layer has no cache entry, a later matching layer has
\* one, and the call returned the fallback style
C3_Witness ==
  /\ rendered # NoCall
  /\ rendered.matched # Null
  /\ rendered.matched.id \notin DOMAIN styleCache
  /\ \E k \in 2..Len(CurrentLayers) :
       /\ matchesLayer(CurrentLayers[k], rendered.sourceLayer, rendered.geometryType)
       /\ CurrentLayers[k].id \in DOMAIN styleCache
  /\ rendered.style = FallbackFor(rendered.geometryType)

(***************************************************************************)
(* C4                                                                      *)
(***************************************************************************)
\* C4: while the document is null, a call of the style function returns the
\* fallback style for the feature's geometry type, a style and not an
\* exception, whatever the cache holds.
C4_NullDocumentFallsBack ==
  (rendered # NoCall /\ pdokStyle = Null) =>
    /\ rendered.style = FallbackFor(rendered.geometryType)
    /\ ~IsThrow(rendered.style)
    /\ ~rendered.fromCache

\* the document is null after a failed pass, the cache still holds an entry
\* of a layer the feature would match, and the style function was called
C4_Witness ==
  /\ rendered # NoCall
  /\ pdokStyle = Null
  /\ "layers" \in DOMAIN response
  /\ IsList(response.layers)
  /\ \E k \in 1..Len(response.layers.list) :
       /\ matchesLayer(response.layers.list[k], rendered.sourceLayer, rendered.geometryType)
       /\ response.layers.list[k].id \in DOMAIN styleCache
  /\ rendered.geometryType = "Polygon"

(***************************************************************************)
(* C5                                                                      *)
(***************************************************************************)
\* C5: a layer with a layout value of the wrong kind (text-font a string)
\* does not make compilation throw: after preprocessStyles the document is
\* kept and every other layer of a supported type has its cache entry.
C5_WrongKindNeverThrows ==
  (DocumentLoaded /\ \E k \in 1..Len(response.layers.list) : HasWrongKind(response.layers.list[k])) =>
    /\ pdokStyle = response
    /\ \A k \in 1..Len(response.layers.list) :
         (response.layers.list[k].type \in SupportedTypes /\ ~HasWrongKind(response.layers.list[k]))
           => response.layers.list[k].id \in DOMAIN styleCache

(***************************************************************************)
(* C6                                                                      *)
(***************************************************************************)
\* the cache is the result of a pass that went over all of ls without throwing
CompleteCache(ls, cache) ==
  /\ \A k \in 1..Len(ls) : ~HasWrongKind(ls[k])
  /\ \A id \in LayerIds \cup DOMAIN cache :
       LET writers == {k \in 1..Len(ls) : ls[k].id = id /\ ls[k].type \in SupportedTypes}
       IN /\ id \in DOMAIN cache <=> writers # {}
          /\ writers # {} =>
               cache[id] = convertMapboxLayerToOpenLayers(ls[CHOOSE k \in writers : \A h \in writers : h <= k])

\* C6: the style function can be called only once initializeMap has passed
\* loadPdokStyle, and whenever a call can read the cache (the layer is on the
\* map and the document is not null) the cache is the complete result of a
\* finished preprocessStyles pass over the current document.
C6_NoPartialCacheObserved ==
  brtLayerOnMap =>
    /\ pc = "done"
    /\ Truthy(pdokStyle) =>
         /\ pdokStyle = response
         /\ IsList(pdokStyle.layers)
         /\ CompleteCache(pdokStyle.layers.list, styleCache)

\* a call read a cache of two entries compiled from a document of two layers
C6_Witness ==
  /\ rendered # NoCall
  /\ rendered.readCache
  /\ rendered.fromCache
  /\ Len(CurrentLayers) = 2
  /\ Cardinality(DOMAIN styleCache) = 2

(***************************************************************************)
(* C7 (SpecCompile)                                                        *)
(***************************************************************************)
\* C7: after preprocessStyles every cache entry is the descriptor of a layer
\* of a supported type with that id; a layer of another type adds no entry,
\* raises no error (the pass does not throw when no layer has a value of the
\* wrong kind) and does not keep a later layer of a supported type from
\* getting its entry.
C7_OnlySupportedTypesCached ==
  PassDone =>
    LET ls == pdokStyle.layers.list
    IN /\ \A id \in DOMAIN styleCache :
            \E k \in 1..Len(ls) :
              /\ ls[k].id = id
              /\ ls[k].type \in SupportedTypes
              /\ styleCache[id] = convertMapboxLayerToOpenLayers(ls[k])
       /\ \A k \in 1..Len(ls) :
            ls[k].type \notin SupportedTypes =>
              /\ (\A m \in 1..Len(ls) : ~HasWrongKind(ls[m])) => ~LastPass.threw
              /\ \A j \in (k + 1)..Len(ls) :
                   (ls[j].type \in SupportedTypes /\ \A m \in 1..j : ~HasWrongKind(ls[m]))
                     => ls[j].id \in DOMAIN styleCache

\* a raster layer followed by a background layer: only the latter has an entry
C7_Witness ==
  /\ PassDone
  /\ ~LastPass.threw
  /\ Len(pdokStyle.layers.list) = 2
  /\ pdokStyle.layers.list[1].type = "raster"
  /\ pdokStyle.layers.list[2].type = "background"
  /\ pdokStyle.layers.list[1].id # pdokStyle.layers.list[2].id
  /\ DOMAIN styleCache = {pdokStyle.layers.list[2].id}

(***************************************************************************)
(* C8                                                                      *)
(***************************************************************************)
\* C8: a call of the style function returns a style, never null or
\* undefined: an entry of the cache or the fallback style for the feature's
\* geometry type.
C8_StyleNeverNull ==
  rendered # NoCall =>
    /\ ~IsUndefined(rendered.style)
    /\ ~IsNull(rendered.style)
    /\ ~IsThrow(rendered.style)
    /\ \/ rendered.style = FallbackFor(rendered.geometryType)
       \/ \E id \in DOMAIN styleCache : rendered.style = styleCache[id]

\* the call matched a layer that has no cache entry
C8_Witness ==
  /\ rendered # NoCall
  /\ rendered.readCache
  /\ ~rendered.fromCache
  /\ rendered.matched.id \notin DOMAIN styleCache

(***************************************************************************)
(* C9                                                                      *)
(***************************************************************************)
KnownGeometryTypes ==
  {"Point", "MultiPoint", "LineString", "MultiLineString", "Polygon", "MultiPolygon"}

UnknownFallback ==
  [stroke |-> [color |-> Str(<<"#", "6", "6", "6", "6", "6", "6">>), width |-> Num(10)],
   fill |-> [color |-> Str(<<"r", "g", "b", "a", "(", "2", "5", "5", ",", " ", "2", "5", "5", ",", " ", "2", "5", "5", ",", " ", "0", ".", "8", ")">>)]]

\* C9: for a feature without source-layer name whose geometry type is absent
\* or not one of the six known types, no layer matches and the style
\* function returns the catch-all fallback style.
C9_UnknownGeometryFallsBack ==
  (rendered # NoCall /\ rendered.sourceLayer = "" /\ rendered.geometryType \notin KnownGeometryTypes) =>
    /\ rendered.matched = Null
    /\ ~rendered.readCache
    /\ rendered.style = UnknownFallback

\* such a feature was styled against a document whose layers all have cache entries
C9_Witness ==
  /\ rendered # NoCall
  /\ rendered.sourceLayer = ""
  /\ rendered.geometryType = "GeometryCollection"
  /\ Len(CurrentLayers) = 2
  /\ Cardinality(DOMAIN styleCache) = 2
  /\ rendered.style = UnknownFallback

(***************************************************************************)
(* C10 (SpecCompile)                                                       *)
(***************************************************************************)
\* C10: a second preprocessStyles pass over the same document leaves the
\* cache the first pass left, whatever the cache held before the first, and
\* every entry is the descriptor of a layer of the document.
C10_CompileIdempotent ==
  (pc = "compile" /\ Len(passLog) >= 3) =>
    /\ \A n \in 3..Len(passLog) : passLog[n].cache = passLog[2].cache
    /\ styleCache = passLog[2].cache
    /\ \A id \in DOMAIN styleCache :
         /\ IsList(pdokStyle.layers)
         /\ \E k \in 1..Len(pdokStyle.layers.list) :
              /\ pdokStyle.layers.list[k].id = id
              /\ pdokStyle.layers.list[k].type \in SupportedTypes
              /\ styleCache[id] = convertMapboxLayerToOpenLayers(pdokStyle.layers.list[k])

\* two passes ran from a cache that held an entry of an earlier document;
\* the entry is gone and the cache holds an entry of this document
C10_Witness ==
  /\ pc = "compile"
  /\ Len(passLog) = 3
  /\ "z" \in DOMAIN passLog[1].cache
  /\ "z" \notin DOMAIN styleCache
  /\ styleCache # EmptyCache

(***************************************************************************)
(* C11                                                                     *)
(***************************************************************************)
\* what loadPdokStyle left behind for the answer the style request got
CompiledFrom(r) ==
  IF IsUndefined(r) THEN [document |-> Null, cache |-> EmptyCache]
  ELSE LET pass == preprocessStyles(r, EmptyCache)
       IN [document |-> IF pass.threw THEN Null ELSE r, cache |-> pass.cache]

\* C11: a call of the style function leaves the document and the cache as
\* they are: after any number of calls, for any features, the document and
\* the entries of the cache are exactly what loadPdokStyle left when
\* compilation finished.
C11_ResolutionLeavesDocumentAndCache ==
  rendered # NoCall =>
    LET compiled == CompiledFrom(response)
    IN /\ pdokStyle = compiled.document
       /\ styleCache = compiled.cache

\* a call matched a layer without cache entry and returned the fallback
\* style, while the cache holds the entry of the other layer of the document
C11_Witness ==
  /\ rendered # NoCall
  /\ rendered.readCache
  /\ ~rendered.fromCache
  /\ pdokStyle = response
  /\ Len(CurrentLayers) = 2
  /\ Cardinality(DOMAIN styleCache) = 1
  /\ rendered.matched.id \notin DOMAIN styleCache

(***************************************************************************)
(* C12 (SpecCalls)                                                         *)
(***************************************************************************)
\* the paint property is there
Present(layer, key) == "obj" \in DOMAIN layer.paint /\ key \in DOMAIN layer.paint.obj

\* its value when it is there, else the default
PaintOr(layer, key, default) == IF Present(layer, key) THEN layer.paint.obj[key] ELSE default

\* C12: in the descriptor compiled from a fill, line or circle layer each of
\* fill-opacity, line-opacity, circle-opacity (default 1), line-width
\* (default 1) and circle-radius (default 5) has its default only when the
\* layer does not carry the property; a value that is there, 0 included, is
\* the one used.
C12_PresentValueUsed ==
  (called # NoCall /\ called.fn = "convertMapboxLayerToOpenLayers") =>
    LET layer == called.layer
        style == called.result
    IN /\ layer.type = "fill" =>
            style.fill.color = parseColor(PaintOr(layer, "fill-color", Str(BlackHex)),
                                          PaintOr(layer, "fill-opacity", Num(10)))
       /\ layer.type = "line" =>
            /\ style.stroke.color = parseColor(PaintOr(layer, "line-color", Str(BlackHex)),
                                               PaintOr(layer, "line-opacity", Num(10)))
            /\ style.stroke.width = PaintOr(layer, "line-width", Num(10))
       /\ layer.type = "circle" =>
            /\ style.image.fill.color = parseColor(PaintOr(layer, "circle-color", Str(BlackHex)),
                                                   PaintOr(layer, "circle-opacity", Num(10)))
            /\ style.image.radius = PaintOr(layer, "circle-radius", Num(50))

(***************************************************************************)
(* C13 (SpecCalls)                                                         *)
(***************************************************************************)
\* the table of the specification: the five names and their hex equivalents
ColorTable ==
  (<<"w", "h", "i", "t", "e">> :> <<"#", "f", "f", "f", "f", "f", "f">>)
  @@ (<<"b", "l", "a", "c", "k">> :> <<"#", "0", "0", "0", "0", "0", "0">>)
  @@ (<<"r", "e", "d">> :> <<"#", "f", "f", "0", "0", "0", "0">>)
  @@ (<<"g", "r", "e", "e", "n">> :> <<"#", "0", "0", "f", "f", "0", "0">>)
  @@ (<<"b", "l", "u", "e">> :> <<"#", "0", "0", "0", "0", "f", "f">>)

\* C13: for every opacity, parseColor returns a string unchanged when it
\* does not start with '#' or with 'rgb' and is none of the five names
\* white, black, red, green, blue; for each of the five names it returns
\* what it returns for the hex equivalent of the name and the same opacity.
C13_OtherStringsUnchanged ==
  (called # NoCall /\ called.fn = "parseColor" /\ IsStr(called.color)) =>
    LET c == called.color.str
    IN /\ (~StartsWith(c, <<"#">>) /\ ~StartsWith(c, <<"r", "g", "b">>) /\ c \notin DOMAIN ColorTable)
            => called.result = called.color
       /\ c \in DOMAIN ColorTable => called.result = parseColor(Str(ColorTable[c]), called.opacity)

(***************************************************************************)
(* C14                                                                     *)
(***************************************************************************)
\* the descriptor has the shape the compiler gives a layer of the type
KindAgrees(type, style) ==
  CASE type = "fill" -> DOMAIN style = {"fill", "stroke"}
    [] type = "line" -> DOMAIN style = {"stroke"}
    [] type = "circle" -> DOMAIN style = {"image"} /\ "radius" \in DOMAIN style.image
    [] type = "symbol" -> DOMAIN style \in {{"text"}, {"image"}}
    [] type = "background" -> DOMAIN style = {"fill"}
    [] OTHER -> FALSE

\* C14 as stated: when a call of the style function returns a style from the
\* cache, the style is the descriptor compiled from the layer the call
\* matched, the first candidate in document order, and its kind agrees with
\* the type of that layer, also when layers of the document share an id.
C14_CachedStyleOfMatchedLayer ==
  (rendered # NoCall /\ rendered.fromCache) =>
    /\ rendered.style = convertMapboxLayerToOpenLayers(rendered.matched)
    /\ KindAgrees(rendered.matched.type, rendered.style)

\* C14 amended: when a call returns a style from the cache, the style is the
\* descriptor compiled from the last layer of a supported type, in document
\* order, that has the id of the matched layer, and its kind agrees with the
\* type of that layer; the matched layer is the first candidate in document
\* order, and when it is itself that last layer the style is its own
\* descriptor, of the kind of its type.
C14_CachedStyleOfLastLayerWithId ==
  (rendered # NoCall /\ rendered.fromCache) =>
    LET writers == {k \in 1..Len(CurrentLayers) :
                      /\ CurrentLayers[k].id = rendered.matched.id
                      /\ CurrentLayers[k].type \in SupportedTypes}
        first == CHOOSE k \in 1..Len(CurrentLayers) :
                   /\ matchesLayer(CurrentLayers[k], rendered.sourceLayer, rendered.geometryType)
                   /\ \A h \in 1..(k - 1) :
                        ~matchesLayer(CurrentLayers[h], rendered.sourceLayer, rendered.geometryType)
    IN /\ writers # {}
       /\ LET last == CHOOSE k \in writers : \A h \in writers : h <= k
          IN /\ rendered.matched = CurrentLayers[first]
             /\ rendered.style = convertMapboxLayerToOpenLayers(CurrentLayers[last])
             /\ KindAgrees(CurrentLayers[last].type, rendered.style)
             /\ last = first =>
                  /\ rendered.style = convertMapboxLayerToOpenLayers(rendered.matched)
                  /\ KindAgrees(rendered.matched.type, rendered.style)

\* two layers share an id: a polygon matched the first, a fill layer, and
\* got from the cache the descriptor of the second, a line layer
C14_Witness ==
  /\ rendered # NoCall
  /\ rendered.fromCache
  /\ Len(CurrentLayers) = 2
  /\ CurrentLayers[1].id = CurrentLayers[2].id
  /\ rendered.matched = CurrentLayers[1]
  /\ CurrentLayers[1].type = "fill"
  /\ CurrentLayers[2].type = "line"
  /\ rendered.geometryType = "Polygon"
  /\ rendered.style = convertMapboxLayerToOpenLayers(CurrentLayers[2])
  /\ ~KindAgrees("fill", rendered.style)

(***************************************************************************)
(* C15 (SpecLayers)                                                        *)
(***************************************************************************)
\* createBgtLayer has resolved
BgtSettled == bgtPc \in {"settled", "done"}

\* the tile matrix set request has succeeded
FetchSucceeded == ~IsUndefined(tileMatrixSetResponse) /\ ~IsThrow(tileMatrixSetResponse)

\* a style, the remote one or the fallback, has been applied to the BGT layer
StyleApplied == bgtLayer # Null /\ bgtLayer.style \in {"mapbox", "fallback"}

\* C15 as stated: createBgtLayer resolves to a LayerInfo, not null, exactly
\* when the tile matrix set request succeeded; when applying the remote
\* style fails it still resolves to a LayerInfo and the layer carries the
\* fallback style function; the layer is in the layers of LayersComponent
\* only after the remote style or the fallback style was applied to it.
C15_LayerInfoIffFetchSucceeded ==
  /\ BgtSettled => (bgtLayerInfo # Null <=> FetchSucceeded)
  /\ applyStyleResult = "rejected" =>
       /\ BgtSettled
       /\ bgtLayerInfo = BgtLayerInfo
       /\ bgtLayer.style = "fallback"
  /\ InComponent("BGT") => StyleApplied

\* C15 amended: createBgtLayer resolves to a LayerInfo, not null, exactly
\* when the tile matrix set request succeeded and delivered a tile matrix
\* set (a truthy body, not null); the rest as stated, and a call of the
\* style function of a layer carrying the fallback returns the built-in
\* style of the geometry type.
C15_LayerInfoIffTileMatrixSet ==
  /\ BgtSettled => (bgtLayerInfo # Null <=> (FetchSucceeded /\ Truthy(tileMatrixSetResponse)))
  /\ ~BgtSettled => bgtLayerInfo = Undefined
  /\ applyStyleResult = "rejected" =>
       /\ BgtSettled
       /\ bgtLayerInfo = BgtLayerInfo
       /\ bgtLayer.style = "fallback"
  /\ InComponent("BGT") => (bgtPc = "done" /\ StyleApplied)
  /\ bgtRendered # NoCall =>
       /\ applyStyleResult = "rejected"
       /\ bgtRendered.style = createFallbackStyleFunction(bgtRendered.feature.geometryType)

\* applying the remote style failed, createBgtLayer resolved to the
\* LayerInfo, the layer was added after the BRT layer and its fallback
\* style function was called for a line
C15_Witness ==
  /\ bgtPc = "done"
  /\ applyStyleResult = "rejected"
  /\ bgtLayerInfo = BgtLayerInfo
  /\ componentLayers = <<"BRT", "BGT">>
  /\ bgtLayer.style = "fallback"
  /\ bgtRendered # NoCall
  /\ bgtRendered.feature.geometryType = "LineString"

(***************************************************************************)
(* C16 (SpecLifecycle)                                                     *)
(***************************************************************************)
\* ngOnDestroy has run
Destroyed == pc # "created" /\ mapTarget = NoTarget

\* C16: once ngOnDestroy has run, no vector tile layer is added to the map,
\* whichever steps of initializeMap were pending when it ran.
C16_NoLayerAfterDestroy == [][Destroyed => (brtLayerOnMap' = brtLayerOnMap)]_vars

====
